---- MODULE Spec2Model ----
(***************************************************************************)
(* PiperArmController (src/driver.py): the joint-command state, the        *)
(* gripper mapping and the interactive terminal session.                   *)
(*                                                                         *)
(* Fixed-point units.  Joint angles are integers, 1 unit = 0.0001 rad (a   *)
(* value typed with the degrees suffix is 1 unit = 0.0001 deg until it is  *)
(* converted).  Rounding to 3 decimals is rounding to a multiple of 10     *)
(* units.  Gripper widths are integers, 1 unit = 0.000001 m; a normalized  *)
(* gripper value t given by the caller is 1 unit = 0.0001, and a           *)
(* normalized value returned by the controller is 1 unit = 1/GRIPPER_OPEN. *)
(* Arithmetic is exact: binary floating-point error is not represented.    *)
(***************************************************************************)
EXTENDS Integers, Sequences, FiniteSets, TLC

VARIABLES
    start_position,    \* self.start_position
    current_position,  \* self.current_position
    session,           \* where interactive_control is: NotStarted, MainMenu,
                       \* GripperMenu, Terminated (loop left by break),
                       \* Aborted (an exception left interactive_control)
    pc,                \* position inside a menu loop: "display" (top of the
                       \* loop) or "prompt" (at input()); "idle" outside
    op,                \* the last operation or step: [name, arg]
    line,              \* the line read by the last step (<<>> if it read none)
    calls,             \* hardware calls issued by the last step, in order
    ret,               \* value returned by the last getter (<<>> if none)
    raised,            \* TRUE iff an exception left the last operation
    printed,           \* what the last step printed (a set of tags)
    hw_target,         \* the driver's side: <<v>> for the vector v of the last
                       \* set_joint_positions call that returned, <<>> if none
    strictParse        \* build flavour of np.fromstring on unmatched text:
                       \* TRUE raises ValueError, FALSE returns the prefix

vars == <<start_position, current_position, session, pc, op, line, calls,
          ret, raised, printed, hw_target, strictParse>>

(***************************************************************************)
(* Bounds                                                                  *)
(***************************************************************************)
\* Largest number of whitespace-separated tokens on a typed numeric line.
MaxTokens == 7

(***************************************************************************)
(* Numeric helpers                                                         *)
(***************************************************************************)
\* n/d rounded to the nearest integer, ties to the even one (np.round).
RoundHalfEven(n, d) ==
    LET q == n \div d
        r == n % d
    IN  IF 2 * r < d THEN q
        ELSE IF 2 * r > d THEN q + 1
        ELSE IF q % 2 = 0 THEN q ELSE q + 1

\* np.round(x, 3) on one component: nearest multiple of 0.001 = 10 units.
Round3(x) == 10 * RoundHalfEven(x, 10)

\* np.round(v, 3) on a vector.
Round3Vec(v) == [i \in 1..Len(v) |-> Round3(v[i])]

\* np.radians on one component: degrees (0.0001 deg) to radians
\* (0.0001 rad), pi/180 taken as 355/(113*180) = 71/4068.
Radians(x) == RoundHalfEven(x * 71, 4068)

RadiansVec(v) == [i \in 1..Len(v) |-> Radians(v[i])]

\* np.round(np.degrees(x), 1) on one component: radians (0.0001 rad) to
\* degrees rounded to 1 decimal, in units of 0.0001 deg;
\* 180/pi = 20340/355, so x rad-units = x * 20340/355 deg-units.
Degrees1(x) == 1000 * RoundHalfEven(x * 4068, 71 * 1000)

Degrees1Vec(v) == [i \in 1..Len(v) |-> Degrees1(v[i])]

\* np.clip(x, lo, hi)
Clip(x, lo, hi) == IF x < lo THEN lo ELSE IF x > hi THEN hi ELSE x

\* self.GRIPPER_OPEN = 0.07 and self.GRIPPER_CLOSED = 0.0, in 0.000001 m.
GRIPPER_OPEN == 70000
GRIPPER_CLOSED == 0

\* The default start joint configuration.
StartPose == <<-15930, 6340, -2860, 0, 3850, -18500>>

\* The neutral position of reset_to_zero_position.
ZeroPose == <<0, 0, 0, 0, 0, 0>>

(***************************************************************************)
(* Text.  A typed line is a sequence of symbols: single characters, with   *)
(* an unsigned decimal numeral ("0.1", "45") kept as one symbol.           *)
(***************************************************************************)
Numerals == {"0", "0.1", "0.2", "0.3", "0.5", "1", "1.5", "0.1234", "45"}

\* The value of an unsigned numeral, in units of 0.0001.
NumVal(n) ==
    CASE n = "0"      -> 0
      [] n = "0.1"    -> 1000
      [] n = "0.2"    -> 2000
      [] n = "0.3"    -> 3000
      [] n = "0.5"    -> 5000
      [] n = "1"      -> 10000
      [] n = "1.5"    -> 15000
      [] n = "0.1234" -> 1234
      [] n = "45"     -> 450000

\* str.lower() on one symbol.
LowerChar(c) ==
    CASE c = "D" -> "d"
      [] c = "Q" -> "q"
      [] c = "G" -> "g"
      [] c = "B" -> "b"
      [] c = "O" -> "o"
      [] c = "C" -> "c"
      [] OTHER   -> c

\* str.lower()
Lower(s) == [i \in 1..Len(s) |-> LowerChar(s[i])]

\* str.lstrip() and str.strip()
RECURSIVE LStrip(_)
LStrip(s) == IF s # <<>> /\ Head(s) = " " THEN LStrip(Tail(s)) ELSE s

RECURSIVE Strip(_)
Strip(s) ==
    LET t == LStrip(s)
    IN  IF t # <<>> /\ t[Len(t)] = " " THEN Strip(SubSeq(t, 1, Len(t) - 1))
        ELSE t

\* np.fromstring(text, sep=' '): numbers are read from the left, separated
\* by any amount of whitespace; reading stops at the first position that
\* does not start a number.  Result: the values read and whether text was
\* left unread (bad).
RECURSIVE Scan(_, _)
Scan(s, acc) ==
    LET t == LStrip(s)
    IN  IF t = <<>> THEN [vals |-> acc, bad |-> FALSE]
        ELSE IF Head(t) \in Numerals
            THEN Scan(Tail(t), Append(acc, NumVal(Head(t))))
        ELSE IF Len(t) >= 2 /\ Head(t) \in {"+", "-"} /\ t[2] \in Numerals
            THEN Scan(Tail(Tail(t)),
                      Append(acc, IF Head(t) = "-" THEN 0 - NumVal(t[2])
                                  ELSE NumVal(t[2])))
        ELSE [vals |-> acc, bad |-> TRUE]

FromString(s) == Scan(s, <<>>)

\* float(text): the whole text must be one optionally signed number.
ParseFloat(s) ==
    IF Len(s) = 1 /\ s[1] \in Numerals
        THEN [ok |-> TRUE, val |-> NumVal(s[1])]
    ELSE IF Len(s) = 2 /\ s[1] \in {"+", "-"} /\ s[2] \in Numerals
        THEN [ok |-> TRUE,
              val |-> IF s[1] = "-" THEN 0 - NumVal(s[2]) ELSE NumVal(s[2])]
    ELSE [ok |-> FALSE, val |-> 0]

(***************************************************************************)
(* Inputs                                                                  *)
(***************************************************************************)
\* The tokens of the example line "0.1 0 -0.2 0 0.3 0" printed by the
\* session's help text; longer lines repeat them.
ExampleTokens ==
    << <<"0.1">>, <<"0">>, <<"-", "0.2">>, <<"0">>, <<"0.3">>, <<"0">> >>

\* First tokens tried: positive, negative, finer than 3 decimals.
FirstTokens == { <<"0.1">>, <<"-", "0.1">>, <<"0.1234">> }

\* n tokens: first token f, the others from the example line.
TokenList(n, f) ==
    [i \in 1..n |-> IF i = 1 THEN f ELSE ExampleTokens[((i - 1) % 6) + 1]]

\* Tokens joined by single blanks.
RECURSIVE Join(_)
Join(toks) ==
    IF toks = <<>> THEN <<>>
    ELSE IF Len(toks) = 1 THEN Head(toks)
    ELSE Head(toks) \o <<" ">> \o Join(Tail(toks))

\* Token lists of 0..MaxTokens numbers, and lists with the token at
\* position k replaced by the non-numeric token x.
NumberLists ==
    { TokenList(n, f) : n \in 0..MaxTokens, f \in FirstTokens }

BadLists ==
    { [TokenList(n, <<"0.1">>) EXCEPT ![k] = <<"x">>] :
        n \in {6, MaxTokens}, k \in {1, 4, 6} }
    \cup { [TokenList(MaxTokens, <<"0.1">>) EXCEPT ![MaxTokens] = <<"x">>] }

\* Numeric lines: optional "+" prefix, optional d/D suffix.
NumericLines ==
    { (IF rel THEN <<"+">> ELSE <<>>) \o Join(toks) \o suf :
        rel \in BOOLEAN, toks \in NumberLists \cup BadLists,
        suf \in {<<>>, <<"d">>} }
    \cup { Join(TokenList(6, <<"45">>)) \o <<"D">>,
           <<"+", " ">> \o Join(TokenList(6, <<"0.1">>)) \o <<" ", "d">> }

QuitLines ==
    { <<"q">>, <<"Q">>, <<"q", "u", "i", "t">>, <<"e", "x", "i", "t">>,
      <<" ", "q", " ">> }

MenuLines == { <<"g">>, <<"G">>, <<"b">>, <<"o">>, <<"c">>, <<"B">> }

GripperNumberLines ==
    { <<"0">>, <<"0.5">>, <<"1">>, <<"1.5">>, <<"-", "0.5">>, <<"x">>, <<>> }

\* Lines typed at the main prompt and at the gripper prompt.
MainLines == QuitLines \cup MenuLines \cup NumericLines
GripperLines == QuitLines \cup MenuLines \cup GripperNumberLines

\* Joint vectors passed by a caller of the controller API.
ApiVectors ==
    { <<1234, -5000, 3000, 2000, -12000, 8000>>,
      <<1000, 0, -2000, 0, 3000, 0>> }

\* Joint positions the hardware may report (the arm need not have settled).
ReportedJoints ==
    { StartPose, ZeroPose, <<-15926, 6344, -2855, 5, 3850, -18500>>,
      <<1238, -4996, 3004, 2000, -11995, 8000>> }

\* Gripper widths the hardware may report, and normalized values a caller
\* may pass to set_gripper.
ReportedWidths == { 0, 17500, 35000, 70000, 80000 }
ApiGripperValues == { -10000, 0, 2500, 5000, 10000, 20000 }

(***************************************************************************)
(* The controller: pure parts                                              *)
(***************************************************************************)
\* One call of the hardware driver: its name, its argument (a vector; a
\* scalar is a vector of one; none is <<>>) and whether it returned (ok) or
\* raised.
HwCall(fn, arg, ok) == [fn |-> fn, arg |-> arg, ok |-> ok]

IsWrite(c) == c.fn \in {"set_joint_positions", "set_gripper_ctrl"}
IsRead(c) == c.fn \in {"get_joint_positions", "get_gripper_state"}

\* The last operation or step: name, argument, relative-mode flag.
Op(name, arg, rel) == [name |-> name, arg |-> arg, rel |-> rel]

\* self.current_position after _set_joint_positions(angles): assigned
\* after the driver call, so only when the call returned.
CommandAfterSetEager(cur, angles, ok) == angles
CommandAfterSetRounded(cur, angles, ok) ==
    IF ok THEN Round3Vec(angles) ELSE cur
CommandAfterSet(cur, angles, ok) == IF ok THEN angles ELSE cur

\* self.start_position after _set_joint_positions(angles): not assigned.
StartAfterSetAliased(start, angles, ok) == IF ok THEN angles ELSE start
StartAfterSet(start, angles, ok) == start

\* self.start_position + np.array(angle_differences): elementwise, a
\* one-element array broadcasts, any other length raises ValueError.
Broadcastable(deltas) == Len(deltas) \in {1, Len(StartPose)}

RelativeTargetCompounding(start, deltas) ==
    [i \in 1..Len(start) |->
        current_position[i]
            + (IF Len(deltas) = 1 THEN deltas[1] ELSE deltas[i])]
RelativeTarget(start, deltas) ==
    [i \in 1..Len(start) |->
        start[i] + (IF Len(deltas) = 1 THEN deltas[1] ELSE deltas[i])]

\* The driver calls of get_joint_angles: one read of the joint positions;
\* the getters derived from it make no further call.
JointReadCallsTwice(ok) ==
    <<HwCall("get_joint_positions", <<>>, TRUE),
      HwCall("get_joint_positions", <<>>, ok)>>
JointReadCalls(ok) == <<HwCall("get_joint_positions", <<>>, ok)>>

\* get_joint_angles on a reported position.
JointAnglesCached(rep) == current_position
JointAngles(rep) == Round3Vec(rep)

\* get_relative_angles on a reported position.
RelativeAngles(rep, start) ==
    [i \in 1..Len(start) |-> Round3(JointAngles(rep)[i] - start[i])]

\* get_gripper_state on a reported width: clip(w / GRIPPER_OPEN, 0, 1),
\* in units of 1/GRIPPER_OPEN.
GripperStateUndivided(w) == Clip((w * 7) \div 100, 0, GRIPPER_OPEN)
GripperState(w) == Clip(w, 0, GRIPPER_OPEN)

\* set_gripper: the width clip(position, 0, 1) * GRIPPER_OPEN handed to the
\* driver (position in 0.0001, 1.0 = 10000; GRIPPER_OPEN / 10000 = 7).
GripperWidthUnclamped(position) == position * (GRIPPER_OPEN \div 10000)
GripperWidth(position) == Clip(position, 0, 10000) * (GRIPPER_OPEN \div 10000)

(***************************************************************************)
(* The main prompt: lines 135-162, what a stripped line asks for            *)
(***************************************************************************)
IsQuit(u) ==
    Lower(u) \in { <<"q">>, <<"q", "u", "i", "t">>, <<"e", "x", "i", "t">> }

IsGripperMenuCaseSensitive(u) == u = <<"g">>
IsGripperMenu(u) == Lower(u) = <<"g">>

\* degrees_mode, clean_input, relative_mode, numbers_input
DegreesMode(u) == u # <<>> /\ Lower(u)[Len(u)] = "d"

CleanInput(u) ==
    IF DegreesMode(u) THEN Strip(SubSeq(u, 1, Len(u) - 1)) ELSE u

RelativeMode(u) == CleanInput(u) # <<>> /\ Head(CleanInput(u)) = "+"

NumbersInputDropsSign(u) ==
    IF RelativeMode(u)
        THEN LET numbers_part == Strip(Tail(CleanInput(u)))
             IN  IF numbers_part # <<>> /\ Head(numbers_part) = "-"
                     THEN Tail(numbers_part) ELSE numbers_part
    ELSE CleanInput(u)
NumbersInput(u) ==
    IF RelativeMode(u) THEN Strip(Tail(CleanInput(u))) ELSE CleanInput(u)

\* np.fromstring raised ValueError (only the strict flavour does).
ParseRaises(u, strict) == strict /\ FromString(NumbersInput(u)).bad

\* angles after line 162: parsed, converted if degrees, rounded.
ParsedAnglesUnrounded(u) ==
    LET a == FromString(NumbersInput(u)).vals
    IN  IF DegreesMode(u) THEN RadiansVec(a) ELSE a
ParsedAngles(u) ==
    LET a == FromString(NumbersInput(u)).vals
    IN  Round3Vec(IF DegreesMode(u) THEN RadiansVec(a) ELSE a)

(***************************************************************************)
(* Construction                                                            *)
(***************************************************************************)
\* __init__: the driver is reset, the start position is set and copied
\* into current_position.  interactive_control has not been called.
Init ==
    /\ start_position = StartPose
    /\ current_position = start_position
    /\ session = "NotStarted"
    /\ pc = "idle"
    /\ op = Op("__init__", <<>>, FALSE)
    /\ line = <<>>
    /\ calls = <<HwCall("reset", <<>>, TRUE)>>
    /\ ret = <<>>
    /\ raised = FALSE
    /\ printed = {}
    /\ hw_target = <<>>
    /\ strictParse \in BOOLEAN

(***************************************************************************)
(* The controller API, called directly before interactive_control          *)
(***************************************************************************)
\* The body of _set_joint_positions(angles): angles is handed to the
\* driver as given, the driver call returning (ok) or raising.
SetJoint(angles, ok) ==
    /\ calls' = <<HwCall("set_joint_positions", angles, ok)>>
    /\ current_position' = CommandAfterSet(current_position, angles, ok)
    /\ start_position' = StartAfterSet(start_position, angles, ok)
    /\ hw_target' = IF ok THEN <<angles>> ELSE hw_target

\* What no API call touches.
ApiFrame == UNCHANGED <<session, pc, line, strictParse>>

_set_joint_positions(angles, ok) ==
    /\ session = "NotStarted"
    /\ SetJoint(angles, ok)
    /\ raised' = ~ok
    /\ op' = Op("_set_joint_positions", angles, FALSE)
    /\ ret' = <<>>
    /\ printed' = {}
    /\ ApiFrame

set_start_position(ok) ==
    /\ session = "NotStarted"
    /\ SetJoint(start_position, ok)
    /\ raised' = ~ok
    /\ op' = Op("set_start_position", <<>>, FALSE)
    /\ ret' = <<>>
    /\ printed' = {}
    /\ ApiFrame

set_relative_angles(angle_differences, ok) ==
    /\ session = "NotStarted"
    /\ Broadcastable(angle_differences)
    /\ SetJoint(RelativeTarget(start_position, angle_differences), ok)
    /\ raised' = ~ok
    /\ op' = Op("set_relative_angles", angle_differences, TRUE)
    /\ ret' = <<>>
    /\ printed' = {}
    /\ ApiFrame

reset_to_zero_position(ok) ==
    /\ session = "NotStarted"
    /\ SetJoint(ZeroPose, ok)
    /\ raised' = ~ok
    /\ op' = Op("reset_to_zero_position", <<>>, FALSE)
    /\ ret' = <<>>
    /\ printed' = {}
    /\ ApiFrame

\* A getter built on one read of the joint positions: the driver reports
\* rep (ok) or raises; value is what the getter returns for rep.
JointGetter(name, rep, value, ok) ==
    /\ session = "NotStarted"
    /\ calls' = JointReadCalls(ok)
    /\ ret' = IF ok THEN value ELSE <<>>
    /\ raised' = ~ok
    /\ op' = Op(name, rep, FALSE)
    /\ printed' = {}
    /\ UNCHANGED <<start_position, current_position, hw_target>>
    /\ ApiFrame

get_joint_angles(rep, ok) ==
    JointGetter("get_joint_angles", rep, JointAngles(rep), ok)

get_joint_angles_degrees(rep, ok) ==
    JointGetter("get_joint_angles_degrees", rep,
                Degrees1Vec(JointAngles(rep)), ok)

get_relative_angles(rep, ok) ==
    JointGetter("get_relative_angles", rep,
                RelativeAngles(rep, start_position), ok)

get_relative_angles_degrees(rep, ok) ==
    JointGetter("get_relative_angles_degrees", rep,
                Degrees1Vec(RelativeAngles(rep, start_position)), ok)

get_gripper_state(w, ok) ==
    /\ session = "NotStarted"
    /\ calls' = <<HwCall("get_gripper_state", <<>>, ok)>>
    /\ ret' = IF ok THEN <<GripperState(w)>> ELSE <<>>
    /\ raised' = ~ok
    /\ op' = Op("get_gripper_state", <<w>>, FALSE)
    /\ printed' = {}
    /\ UNCHANGED <<start_position, current_position, hw_target>>
    /\ ApiFrame

\* The body of set_gripper(position).
SetGripper(position, ok) ==
    /\ calls' = <<HwCall("set_gripper_ctrl", <<GripperWidth(position)>>, ok)>>
    /\ raised' = ~ok
    /\ UNCHANGED <<start_position, current_position, hw_target>>

set_gripper(position, ok) ==
    /\ session = "NotStarted"
    /\ SetGripper(position, ok)
    /\ op' = Op("set_gripper", <<position>>, FALSE)
    /\ ret' = <<>>
    /\ printed' = {}
    /\ ApiFrame

(***************************************************************************)
(* interactive_control: the main menu loop                                 *)
(***************************************************************************)
StartSession ==
    /\ session = "NotStarted"
    /\ session' = "MainMenu"
    /\ pc' = "display"
    /\ op' = Op("interactive_control", <<>>, FALSE)
    /\ calls' = <<>>
    /\ ret' = <<>>
    /\ raised' = FALSE
    /\ printed' = {}
    /\ UNCHANGED <<start_position, current_position, hw_target, line, strictParse>>

\* Lines 124-128: the four getters of the state display, in order, with
\* the driver call each makes and what each prints.
SummaryCalls ==
    <<"get_joint_positions", "get_joint_positions", "get_joint_positions",
      "get_gripper_state">>

SummaryTagsNoRelative == <<"abs_rad", "abs_deg", "gripper">>
SummaryTags == <<"abs_rad", "abs_deg", "rel_rad", "gripper">>

\* The first n driver calls of a display, the n-th raising iff ~lastOk.
DisplayCalls(fns, n, lastOk) ==
    [i \in 1..n |-> HwCall(fns[i], <<>>, (i < n) \/ lastOk)]

\* Top of the main loop: the state is read and printed, then input() waits.
MainDisplay ==
    /\ session = "MainMenu" /\ pc = "display"
    /\ calls' = DisplayCalls(SummaryCalls, Len(SummaryCalls), TRUE)
    /\ printed' = {"header"} \cup {SummaryTags[i] : i \in 1..Len(SummaryTags)}
    /\ pc' = "prompt"
    /\ op' = Op("main_display", <<>>, FALSE)
    /\ raised' = FALSE
    /\ ret' = <<>>
    /\ line' = <<>>
    /\ UNCHANGED <<start_position, current_position, hw_target, session, strictParse>>

\* The failAt-th read of the display raises: nothing catches it, the
\* exception leaves interactive_control.
MainDisplayRaises(failAt) ==
    /\ session = "MainMenu" /\ pc = "display"
    /\ calls' = DisplayCalls(SummaryCalls, failAt, FALSE)
    /\ printed' = {"header"} \cup {SummaryTags[i] : i \in 1..(failAt - 1)}
    /\ session' = "Aborted"
    /\ pc' = "idle"
    /\ op' = Op("main_display", <<>>, FALSE)
    /\ raised' = TRUE
    /\ ret' = <<>>
    /\ line' = <<>>
    /\ UNCHANGED <<start_position, current_position, hw_target, strictParse>>

\* Lines 135-136: q, quit or exit leaves the loop.
MainQuitHomes(l) ==
    /\ session = "MainMenu" /\ pc = "prompt"
    /\ IsQuit(Strip(l))
    /\ SetJoint(start_position, TRUE)
    /\ session' = "Terminated"
    /\ pc' = "idle"
    /\ line' = l
    /\ op' = Op("quit", <<>>, FALSE)
    /\ printed' = {}
    /\ raised' = FALSE
    /\ ret' = <<>>
    /\ UNCHANGED strictParse
MainQuit(l) ==
    /\ session = "MainMenu" /\ pc = "prompt"
    /\ IsQuit(Strip(l))
    /\ session' = "Terminated"
    /\ pc' = "idle"
    /\ line' = l
    /\ op' = Op("quit", <<>>, FALSE)
    /\ calls' = <<>>
    /\ printed' = {}
    /\ raised' = FALSE
    /\ ret' = <<>>
    /\ UNCHANGED <<start_position, current_position, hw_target, strictParse>>

\* Lines 137-138: g enters _handle_gripper_input.
MainGripperMenu(l) ==
    /\ session = "MainMenu" /\ pc = "prompt"
    /\ ~IsQuit(Strip(l))
    /\ IsGripperMenu(Strip(l))
    /\ session' = "GripperMenu"
    /\ pc' = "display"
    /\ line' = l
    /\ op' = Op("gripper_menu", <<>>, FALSE)
    /\ calls' = <<>>
    /\ printed' = {}
    /\ raised' = FALSE
    /\ ret' = <<>>
    /\ UNCHANGED <<start_position, current_position, hw_target, strictParse>>

\* The except branch of lines 169-177: nothing done, the help is printed.
NumericInvalidClobbers ==
    /\ calls' = <<>>
    /\ printed' = {"Invalid input"}
    /\ current_position' = ZeroPose
    /\ UNCHANGED <<start_position, hw_target>>
NumericInvalid ==
    /\ calls' = <<>>
    /\ printed' = {"Invalid input"}
    /\ UNCHANGED <<start_position, current_position, hw_target>>

\* Lines 139-177: any other line is taken as joint angles.  Every
\* exception raised between lines 141 and 167 is caught by the
\* except Exception of line 169, an error of the driver included: the
\* help is printed and the loop goes on.
MainNumeric(l, ok) ==
    /\ session = "MainMenu" /\ pc = "prompt"
    /\ ~IsQuit(Strip(l))
    /\ ~IsGripperMenu(Strip(l))
    /\ LET u == Strip(l)
           angles == ParsedAngles(u)
       IN  IF ParseRaises(u, strictParse)
               THEN /\ NumericInvalid
                    /\ op' = Op("numeric", <<>>, RelativeMode(u))
           ELSE IF RelativeMode(u) /\ ~Broadcastable(angles)
               THEN /\ NumericInvalid
                    /\ op' = Op("numeric", angles, TRUE)
           ELSE /\ SetJoint(IF RelativeMode(u)
                                THEN RelativeTarget(start_position, angles)
                                ELSE angles, ok)
                /\ op' = Op("numeric", angles, RelativeMode(u))
                /\ printed' = IF ok THEN {} ELSE {"Invalid input"}
    /\ raised' = FALSE
    /\ session' = session
    /\ pc' = "display"
    /\ line' = l
    /\ ret' = <<>>
    /\ UNCHANGED strictParse

(***************************************************************************)
(* _handle_gripper_input: the gripper menu loop                            *)
(***************************************************************************)
\* Lines 185-187: the gripper is read and printed, then input() waits.
GripperDisplay ==
    /\ session = "GripperMenu" /\ pc = "display"
    /\ calls' = <<HwCall("get_gripper_state", <<>>, TRUE)>>
    /\ printed' = {"gripper", "commands"}
    /\ pc' = "prompt"
    /\ op' = Op("gripper_display", <<>>, FALSE)
    /\ raised' = FALSE
    /\ ret' = <<>>
    /\ line' = <<>>
    /\ UNCHANGED <<start_position, current_position, hw_target, session, strictParse>>

\* The read raises: the exception leaves _handle_gripper_input and
\* interactive_control.
GripperDisplayRaises ==
    /\ session = "GripperMenu" /\ pc = "display"
    /\ calls' = <<HwCall("get_gripper_state", <<>>, FALSE)>>
    /\ printed' = {}
    /\ session' = "Aborted"
    /\ pc' = "idle"
    /\ op' = Op("gripper_display", <<>>, FALSE)
    /\ raised' = TRUE
    /\ ret' = <<>>
    /\ line' = <<>>
    /\ UNCHANGED <<start_position, current_position, hw_target, strictParse>>

\* gripper_input = input(...).strip().lower()
GripperInput(l) == Lower(Strip(l))

\* Lines 191-192: b returns to the main loop.
GripperBackNoBreak(l) ==
    /\ session = "GripperMenu" /\ pc = "prompt"
    /\ GripperInput(l) = <<"b">>
    /\ session' = "GripperMenu"
    /\ pc' = "display"
    /\ line' = l
    /\ op' = Op("back", <<>>, FALSE)
    /\ calls' = <<>>
    /\ printed' = {}
    /\ raised' = FALSE
    /\ ret' = <<>>
    /\ UNCHANGED <<start_position, current_position, hw_target, strictParse>>
GripperBack(l) ==
    /\ session = "GripperMenu" /\ pc = "prompt"
    /\ GripperInput(l) = <<"b">>
    /\ session' = "MainMenu"
    /\ pc' = "display"
    /\ line' = l
    /\ op' = Op("back", <<>>, FALSE)
    /\ calls' = <<>>
    /\ printed' = {}
    /\ raised' = FALSE
    /\ ret' = <<>>
    /\ UNCHANGED <<start_position, current_position, hw_target, strictParse>>

\* After a set_gripper call of the menu: an error of the driver is not
\* caught (o and c are outside the try, the try catches ValueError only).
AfterGripperCall(ok, message) ==
    /\ session' = IF ok THEN session ELSE "Aborted"
    /\ pc' = IF ok THEN "display" ELSE "idle"
    /\ printed' = IF ok THEN {message} ELSE {}

\* Lines 193-195 and 196-198: o opens, c closes.
GripperOpen(l, ok) ==
    /\ session = "GripperMenu" /\ pc = "prompt"
    /\ GripperInput(l) = <<"o">>
    /\ SetGripper(10000, ok)
    /\ AfterGripperCall(ok, "Gripper opened fully")
    /\ line' = l
    /\ op' = Op("open", <<10000>>, FALSE)
    /\ ret' = <<>>
    /\ UNCHANGED strictParse

GripperClose(l, ok) ==
    /\ session = "GripperMenu" /\ pc = "prompt"
    /\ GripperInput(l) = <<"c">>
    /\ SetGripper(0, ok)
    /\ AfterGripperCall(ok, "Gripper closed fully")
    /\ line' = l
    /\ op' = Op("close", <<0>>, FALSE)
    /\ ret' = <<>>
    /\ UNCHANGED strictParse

\* Lines 199-208: anything else is read as a number in [0, 1].
GripperNumber(l, ok) ==
    /\ session = "GripperMenu" /\ pc = "prompt"
    /\ GripperInput(l) \notin { <<"b">>, <<"o">>, <<"c">> }
    /\ LET f == ParseFloat(GripperInput(l))
       IN  IF f.ok /\ 0 <= f.val /\ f.val <= 10000
               THEN /\ SetGripper(f.val, ok)
                    /\ AfterGripperCall(ok, "Gripper set")
                    /\ op' = Op("position", <<f.val>>, FALSE)
           ELSE /\ calls' = <<>>
                /\ raised' = FALSE
                /\ session' = session
                /\ pc' = "display"
                /\ printed' = IF f.ok THEN {"Position must be between 0 and 1"}
                              ELSE {"Invalid input"}
                /\ op' = Op("position", <<>>, FALSE)
                /\ UNCHANGED <<start_position, current_position, hw_target>>
    /\ line' = l
    /\ ret' = <<>>
    /\ UNCHANGED strictParse

(***************************************************************************)
(* Specification                                                           *)
(***************************************************************************)
Next ==
    \/ \E v \in ApiVectors, ok \in BOOLEAN : _set_joint_positions(v, ok)
    \/ \E ok \in BOOLEAN : set_start_position(ok)
    \/ \E d \in ApiVectors, ok \in BOOLEAN : set_relative_angles(d, ok)
    \/ \E ok \in BOOLEAN : reset_to_zero_position(ok)
    \/ \E rep \in ReportedJoints, ok \in BOOLEAN : get_joint_angles(rep, ok)
    \/ \E rep \in ReportedJoints, ok \in BOOLEAN :
           get_joint_angles_degrees(rep, ok)
    \/ \E rep \in ReportedJoints, ok \in BOOLEAN :
           get_relative_angles(rep, ok)
    \/ \E rep \in ReportedJoints, ok \in BOOLEAN :
           get_relative_angles_degrees(rep, ok)
    \/ \E w \in ReportedWidths, ok \in BOOLEAN : get_gripper_state(w, ok)
    \/ \E t \in ApiGripperValues, ok \in BOOLEAN : set_gripper(t, ok)
    \/ StartSession
    \/ MainDisplay
    \/ \E failAt \in 1..Len(SummaryCalls) : MainDisplayRaises(failAt)
    \/ \E l \in MainLines : MainQuit(l)
    \/ \E l \in MainLines : MainGripperMenu(l)
    \/ \E l \in MainLines, ok \in BOOLEAN : MainNumeric(l, ok)
    \/ GripperDisplay
    \/ GripperDisplayRaises
    \/ \E l \in GripperLines : GripperBack(l)
    \/ \E l \in GripperLines, ok \in BOOLEAN : GripperOpen(l, ok)
    \/ \E l \in GripperLines, ok \in BOOLEAN : GripperClose(l, ok)
    \/ \E l \in GripperLines, ok \in BOOLEAN : GripperNumber(l, ok)

Spec == Init /\ [][Next]_vars

\* The session alone, every driver call returning: interactive_control is
\* entered, the single thread keeps running (each display is carried
\* out), and the operator types b again and again while in the gripper
\* menu and q, quit or exit again and again while in the main menu.
NextLive ==
    \/ StartSession
    \/ MainDisplay
    \/ \E l \in MainLines : MainQuit(l)
    \/ \E l \in MainLines : MainGripperMenu(l)
    \/ \E l \in MainLines : MainNumeric(l, TRUE)
    \/ GripperDisplay
    \/ \E l \in GripperLines : GripperBack(l)
    \/ \E l \in GripperLines : GripperOpen(l, TRUE)
    \/ \E l \in GripperLines : GripperClose(l, TRUE)
    \/ \E l \in GripperLines : GripperNumber(l, TRUE)

LiveSpec ==
    /\ Init
    /\ [][NextLive]_vars
    /\ WF_vars(StartSession)
    /\ WF_vars(MainDisplay)
    /\ WF_vars(GripperDisplay)
    /\ SF_vars(\E l \in MainLines : MainQuit(l))
    /\ SF_vars(\E l \in GripperLines : GripperBack(l))

(***************************************************************************)
(* Properties                                                              *)
(***************************************************************************)
Menus == {"MainMenu", "GripperMenu"}

\* The step read a line at the main prompt and took it as joint angles.
NumericStep == session = "MainMenu" /\ pc = "prompt" /\ op'.name = "numeric"

\* The set_joint_positions calls among a sequence of driver calls.
JointWrites(cs) ==
    {i \in 1..Len(cs) : cs[i].fn = "set_joint_positions"}

\* The grammar of a numeric line as specified: the text left after the
\* d suffix and the + prefix, split on whitespace, must be exactly 6
\* tokens, each a number.
RECURSIVE SplitWs(_, _)
SplitWs(s, tok) ==
    IF s = <<>> THEN (IF tok = <<>> THEN <<>> ELSE <<tok>>)
    ELSE IF Head(s) = " "
        THEN (IF tok = <<>> THEN <<>> ELSE <<tok>>) \o SplitWs(Tail(s), <<>>)
    ELSE SplitWs(Tail(s), Append(tok, Head(s)))

SpecDegrees(u) == u # <<>> /\ u[Len(u)] \in {"d", "D"}

SpecBody(u) == Strip(IF SpecDegrees(u) THEN SubSeq(u, 1, Len(u) - 1) ELSE u)

SpecRelative(u) == SpecBody(u) # <<>> /\ Head(SpecBody(u)) = "+"

SpecTokens(u) ==
    SplitWs(IF SpecRelative(u) THEN Tail(SpecBody(u)) ELSE SpecBody(u), <<>>)

SixNumbers(u) ==
    /\ Len(SpecTokens(u)) = 6
    /\ \A i \in 1..Len(SpecTokens(u)) : ParseFloat(SpecTokens(u)[i]).ok

\* The values of a line of numbers as specified: each token's number,
\* converted to radians in degrees mode, rounded to 3 decimals.
SpecValues(u) ==
    [i \in 1..Len(SpecTokens(u)) |->
        LET v == ParseFloat(SpecTokens(u)[i]).val
        IN  Round3(IF SpecDegrees(u) THEN Radians(v) ELSE v)]

\* C1: a numeric line at the main prompt that does not carry exactly 6
\* numeric tokens issues no set_joint_positions call, leaves
\* current_position unchanged and leaves the session in MainMenu.
C1_MalformedLineRejected ==
    [][ (NumericStep /\ ~SixNumbers(Strip(line')))
            => /\ JointWrites(calls') = {}
               /\ current_position' = current_position
               /\ session' = "MainMenu" ]_vars

\* C2: the session starts in MainMenu; a step that reads a line and that
\* no exception leaves changes the session state exactly as follows:
\* MainMenu to Terminated on q/quit/exit, MainMenu to GripperMenu on g,
\* GripperMenu to MainMenu on b, and no change on any other line.
C2_Transitions ==
    [][ /\ (session = "NotStarted" => session' \in {"NotStarted", "MainMenu"})
        /\ (session \in Menus /\ pc = "display" /\ ~raised'
                => session' = session)
        /\ (session = "MainMenu" /\ pc = "prompt" /\ ~raised'
                => session' = IF IsQuit(Strip(line')) THEN "Terminated"
                              ELSE IF Lower(Strip(line')) = <<"g">>
                                  THEN "GripperMenu"
                              ELSE "MainMenu")
        /\ (session = "GripperMenu" /\ pc = "prompt" /\ ~raised'
                => session' = IF Lower(Strip(line')) = <<"b">>
                                  THEN "MainMenu" ELSE "GripperMenu")
        /\ (session = "GripperMenu" => session' # "Terminated")
        /\ (session \in {"Terminated", "Aborted"} => session' = session)
      ]_vars

\* Reached: the session came back from the gripper menu to the main menu.
C2_Witness == session = "MainMenu" /\ op.name = "back"

\* C3: a step whose set_joint_positions call raised leaves
\* current_position exactly as it was.
C3_FailedWriteKeepsCommand ==
    [][ (\E i \in JointWrites(calls') : ~calls'[i].ok)
            => current_position' = current_position ]_vars

\* Reached: set_relative_angles failed at the driver after an earlier
\* command had moved current_position away from the start position.
C3_Witness ==
    /\ op.name = "set_relative_angles"
    /\ raised
    /\ current_position # StartPose
    /\ current_position # calls[1].arg

\* C4: in a menu of the session, a step in which a driver call raised
\* ends the session with the exception (it is not caught); of the steps
\* that take a line as joint angles, those for a well-formed line of 6
\* numbers are meant.
C4_DriverErrorEndsSession ==
    [][ ( /\ session \in Menus
          /\ \E i \in 1..Len(calls') : ~calls'[i].ok
          /\ (NumericStep => SixNumbers(Strip(line'))) )
            => (session' = "Aborted" /\ raised') ]_vars

\* StartPose + deltas for a 6-component deltas.
PlusStart(deltas) == [i \in 1..6 |-> StartPose[i] + deltas[i]]

\* C5: a relative set with 6 deltas, called directly or dispatched for a
\* "+" line, sends StartPose + deltas to the driver whatever
\* current_position is, and on success leaves that in current_position;
\* so a second relative set with the same deltas right after sends the
\* same vector.
C5_RelativeFromStart ==
    [][ (op'.rel /\ Len(op'.arg) = 6 /\ calls' # <<>>)
            => /\ Len(calls') = 1
               /\ calls'[1].fn = "set_joint_positions"
               /\ calls'[1].arg = PlusStart(op'.arg)
               /\ (calls'[1].ok => current_position' = PlusStart(op'.arg))
               /\ (op.rel /\ op.arg = op'.arg /\ calls # <<>>
                       => calls'[1].arg = calls[1].arg)
      ]_vars

\* Reached: a relative set succeeded and current_position is the start
\* position plus deltas that are not all zero.
C5_Witness ==
    /\ op.rel /\ Len(op.arg) = 6 /\ calls # <<>>
    /\ calls[1].ok
    /\ current_position = PlusStart(op.arg)
    /\ current_position # StartPose

\* Every component is a multiple of 0.001.
ThreeDecimals(v) == \A i \in 1..Len(v) : v[i] % 10 = 0

\* C6 as stated: every vector handed to set_joint_positions, and
\* current_position, has only components that are multiples of 0.001.
C6_AllWritesRounded ==
    /\ \A i \in JointWrites(calls) : ThreeDecimals(calls[i].arg)
    /\ ThreeDecimals(current_position)

\* C6 amended: the rounding is done by the session before it dispatches a
\* line; the vector sent for a line taken as joint angles, and
\* current_position after it was sent with success, has only components
\* that are multiples of 0.001.
C6_SessionWritesRounded ==
    (op.name = "numeric")
        => /\ \A i \in JointWrites(calls) : ThreeDecimals(calls[i].arg)
           /\ (\E i \in JointWrites(calls) : calls[i].ok)
                  => ThreeDecimals(current_position)

\* Reached: the line "0.1234 0 -0.2 0 0.3 0" was sent as 0.123 ...
C6_Witness ==
    /\ op.name = "numeric"
    /\ line = Join(TokenList(6, <<"0.1234">>))
    /\ calls # <<>>
    /\ calls[1].ok
    /\ current_position = <<1230, 0, -2000, 0, 3000, 0>>

SetOps ==
    {"_set_joint_positions", "set_relative_angles", "set_start_position",
     "reset_to_zero_position", "set_gripper"}

JointGetOps ==
    {"get_joint_angles", "get_joint_angles_degrees", "get_relative_angles",
     "get_relative_angles_degrees"}

\* C7: after a set operation of the controller the step's driver calls
\* are exactly one write (set_joint_positions, or set_gripper_ctrl for
\* set_gripper); after a get operation exactly one read
\* (get_joint_positions, or get_gripper_state for get_gripper_state).
C7_OneDriverCall ==
    /\ (op.name \in SetOps \cup JointGetOps \cup {"get_gripper_state"}
            => Len(calls) = 1)
    /\ (op.name \in SetOps \ {"set_gripper"}
            => calls[1].fn = "set_joint_positions")
    /\ (op.name = "set_gripper" => calls[1].fn = "set_gripper_ctrl")
    /\ (op.name \in JointGetOps => calls[1].fn = "get_joint_positions")
    /\ (op.name = "get_gripper_state" => calls[1].fn = "get_gripper_state")

\* Reached: a getter derived from two other getters returned a value.
C7_Witness ==
    /\ op.name = "get_relative_angles_degrees"
    /\ Len(calls) = 1 /\ IsRead(calls[1])
    /\ ret # <<>>

\* C8: current_position changes only in a step of the joint set path (a
\* joint set operation, or a line the session took as joint angles) whose
\* set_joint_positions call returned; so not in a getter, a gripper
\* operation, a display, a gripper menu step, quit, back, or a line
\* answered with "Invalid input".
C8_OnlyJointSetChangesCommand ==
    [][ (current_position' # current_position)
            => /\ op'.name \in (SetOps \ {"set_gripper"}) \cup {"numeric"}
               /\ JointWrites(calls') # {}
               /\ \A i \in JointWrites(calls') : calls'[i].ok
               /\ "Invalid input" \notin printed' ]_vars

\* Reached: a line was answered with "Invalid input" after an earlier
\* command had changed current_position.
C8_Witness ==
    /\ op.name = "numeric"
    /\ "Invalid input" \in printed
    /\ calls = <<>>
    /\ current_position # StartPose

\* C9: start_position always has its construction-time value.
C9_StartPoseConstant == start_position = StartPose

\* Reached: a line of the session overwrote current_position (first a
\* copy of the start position) with another vector.
C9_Witness ==
    /\ op.name = "numeric"
    /\ calls # <<>> /\ calls[1].ok
    /\ current_position # StartPose

\* C10: current_position has exactly 6 components, and so has every
\* vector handed to set_joint_positions.
C10_SixComponents ==
    /\ Len(current_position) = 6
    /\ \A i \in JointWrites(calls) : Len(calls[i].arg) = 6

\* The set_gripper_ctrl calls among a sequence of driver calls.
GripperWrites(cs) == {i \in 1..Len(cs) : cs[i].fn = "set_gripper_ctrl"}

\* The normalized value a gripper menu line asks for, as specified: 1 for
\* o, 0 for c, the number itself if it lies in [0, 1]; <<>> otherwise.
GripperRequest(g) ==
    IF g = <<"o">> THEN <<10000>>
    ELSE IF g = <<"c">> THEN <<0>>
    ELSE IF ParseFloat(g).ok /\ ParseFloat(g).val >= 0
            /\ ParseFloat(g).val <= 10000
        THEN <<ParseFloat(g).val>>
    ELSE <<>>

\* C11: a line read at the gripper prompt issues a set_gripper_ctrl call
\* exactly when it is o, c or a number in [0, 1] (one call, with the width
\* t * open_width), and otherwise no driver call at all; unless it is b
\* or the driver raised, the session stays in GripperMenu; and every
\* width ever handed to set_gripper_ctrl lies in [closed, open] width.
C11_GripperWrites ==
    [][ /\ (session = "GripperMenu" /\ pc = "prompt")
            => LET g == Lower(Strip(line'))
               IN  /\ (GripperRequest(g) = <<>> => calls' = <<>>)
                   /\ (GripperRequest(g) # <<>>
                          => /\ Len(calls') = 1
                             /\ calls'[1].fn = "set_gripper_ctrl"
                             /\ calls'[1].arg[1] * 10000
                                    = GripperRequest(g)[1] * GRIPPER_OPEN)
                   /\ (g # <<"b">> /\ ~raised' => session' = "GripperMenu")
        /\ \A i \in GripperWrites(calls') :
               /\ calls'[i].arg[1] >= GRIPPER_CLOSED
               /\ calls'[i].arg[1] <= GRIPPER_OPEN
      ]_vars

\* Reached: the line 0.5 of the gripper menu was sent as half the open
\* width, and the session is still in the gripper menu.
C11_Witness ==
    /\ session = "GripperMenu"
    /\ line = <<"0.5">>
    /\ calls = <<HwCall("set_gripper_ctrl", <<35000>>, TRUE)>>

C13_PrefixAndSuffix ==
    [][ (NumericStep /\ SixNumbers(Strip(line')))
            => LET u == Strip(line')
               IN  /\ op'.rel = SpecRelative(u)
                   /\ op'.arg = SpecValues(u)
                   /\ Len(calls') = 1
                   /\ calls'[1].fn = "set_joint_positions"
                   /\ calls'[1].arg = IF SpecRelative(u)
                                          THEN PlusStart(SpecValues(u))
                                          ELSE SpecValues(u)
      ]_vars

\* Reached: the line "+-0.1 0 -0.2 0 0.3 0" moved the first joint to the
\* start position minus 0.1.
C13_Witness ==
    /\ op.name = "numeric"
    /\ line = <<"+">> \o Join(TokenList(6, <<"-", "0.1">>))
    /\ op.rel
    /\ op.arg = <<-1000, 0, -2000, 0, 3000, 0>>
    /\ calls # <<>> /\ calls[1].ok
    /\ current_position[1] = StartPose[1] - 1000

\* The full state summary was read from the driver and printed.
FullSummaryShown ==
    /\ {"abs_rad", "abs_deg", "rel_rad", "gripper"} \subseteq printed
    /\ \E i \in 1..Len(calls) : calls[i].fn = "get_joint_positions"
    /\ \E i \in 1..Len(calls) : calls[i].fn = "get_gripper_state"
    /\ \A i \in 1..Len(calls) : IsRead(calls[i]) /\ calls[i].ok

\* C14 as stated: whenever the session waits at a prompt, main or
\* gripper, it has just read the driver and printed the full summary.
C14_FullSummaryBeforeEveryPrompt == (pc = "prompt") => FullSummaryShown

\* C14 amended: at the main prompt the full summary has just been read
\* and printed; at the gripper prompt only the normalized gripper value,
\* from one get_gripper_state call.
C14_SummaryBeforePrompt ==
    /\ (pc = "prompt" /\ session = "MainMenu") => FullSummaryShown
    /\ (pc = "prompt" /\ session = "GripperMenu")
           => /\ printed \cap {"abs_rad", "abs_deg", "rel_rad", "gripper"}
                    = {"gripper"}
              /\ calls = <<HwCall("get_gripper_state", <<>>, TRUE)>>

\* Reached: the session waits at the gripper prompt after a joint command.
C14_Witness ==
    /\ session = "GripperMenu" /\ pc = "prompt"
    /\ current_position # StartPose

\* C15: current_position is the vector of the last set_joint_positions
\* call that returned, and the start position while none has.
C15_CommandIsLastAccepted ==
    current_position = IF hw_target = <<>> THEN StartPose ELSE hw_target[1]

\* Reached: a set_joint_positions call raised after an earlier one had
\* returned with another vector.
C15_Witness ==
    /\ hw_target # <<>>
    /\ calls # <<>>
    /\ calls[1].fn = "set_joint_positions" /\ ~calls[1].ok
    /\ calls[1].arg # hw_target[1]
    /\ current_position # StartPose

\* r is x rounded to 3 decimals.
Near3(r, x) == r % 10 = 0 /\ r - x <= 5 /\ x - r <= 5

\* d (degrees) is x (radians, before its rounding to 3 decimals)
\* converted with 180/pi = 4068/71 and rounded to 1 decimal.
NearDegrees(d, x) ==
    /\ d % 1000 = 0
    /\ 71 * d - 4068 * x <= 71 * 500 + 4068 * 5
    /\ 4068 * x - 71 * d <= 71 * 500 + 4068 * 5

\* C16: a joint getter that returned gives values computed from the
\* position the driver reported in that call: the position rounded, its
\* degrees, the position minus StartPose, and the degrees of that.
C16_LiveRead ==
    (op.name \in JointGetOps /\ ~raised)
        => /\ Len(ret) = 6
           /\ \A i \in 1..6 :
                CASE op.name = "get_joint_angles"
                       -> Near3(ret[i], op.arg[i])
                  [] op.name = "get_joint_angles_degrees"
                       -> NearDegrees(ret[i], op.arg[i])
                  [] op.name = "get_relative_angles"
                       -> Near3(ret[i], op.arg[i] - StartPose[i])
                  [] op.name = "get_relative_angles_degrees"
                       -> NearDegrees(ret[i], op.arg[i] - StartPose[i])

\* Reached: the last command was 0.1234 -0.5 0.3 0.2 -1.2 0.8, the
\* driver reported a position near it, and get_joint_angles returned the
\* reported position rounded, not the command.
C16_Witness ==
    /\ op.name = "get_joint_angles"
    /\ current_position = <<1234, -5000, 3000, 2000, -12000, 8000>>
    /\ op.arg = <<1238, -4996, 3004, 2000, -11995, 8000>>
    /\ ret = <<1240, -5000, 3000, 2000, -12000, 8000>>

\* C17: the step that reads q, quit or exit at the main prompt issues no
\* driver call and leaves current_position and the driver's command as
\* they are; in Terminated the session is outside its loops and no step
\* is possible any more.
C17_QuitIsSilent ==
    /\ [][ (session = "MainMenu" /\ pc = "prompt" /\ IsQuit(Strip(line')))
               => /\ session' = "Terminated"
                  /\ calls' = <<>>
                  /\ current_position' = current_position
                  /\ hw_target' = hw_target ]_vars
    /\ [](session = "Terminated" => (pc = "idle" /\ ~ENABLED Next))

\* Reached: the session was quit after a command had been sent.
C17_Witness ==
    /\ session = "Terminated"
    /\ op.name = "quit"
    /\ current_position # StartPose

\* C18: with every driver call returning and the operator as described,
\* a session in a menu always reaches Terminated; at the gripper prompt
\* b can be typed and leads to the main menu, whose display can be
\* carried out, and at the main prompt q can be typed and terminates.
C18_Terminates ==
    /\ (session \in Menus) ~> (session = "Terminated")
    /\ [](session = "GripperMenu" /\ pc = "prompt"
             => ENABLED GripperBack(<<"b">>))
    /\ [](session = "MainMenu" /\ pc = "display" => ENABLED MainDisplay)
    /\ [](session = "MainMenu" /\ pc = "prompt" => ENABLED MainQuit(<<"q">>))
    /\ [][ /\ (session = "GripperMenu" /\ pc = "prompt"
                  /\ line' = <<"b">>) => session' = "MainMenu"
           /\ (session = "MainMenu" /\ pc = "prompt"
                  /\ line' = <<"q">>) => session' = "Terminated" ]_vars

\* Reached: the session ended on the line exit.
C18_Witness ==
    /\ session = "Terminated"
    /\ line = <<"e", "x", "i", "t">>

====
